---- MODULE Spec2Model ----
(***************************************************************************)
(* Products REST API: the validation chains of the router, the validation  *)
(* gate (handleInputErrors) and the resource handlers of                   *)
(* src/handlers/product.ts, over one products table.                       *)
(*                                                                         *)
(* Strings are sequences of one-character strings, so that the validators  *)
(* (isInt, isNumeric, isEmpty, isBoolean), the stringification the         *)
(* validation library applies before them and the JavaScript coercion of   *)
(* `value > 0` are computed and not assumed.  A number is m / 10^k, kept   *)
(* as the pair (m, k) with no trailing zero in the fraction.               *)
(***************************************************************************)
EXTENDS Integers, Sequences, FiniteSets, TLC

(***************************************************************************)
(* JSON values of a request body.  A field that is missing from the body   *)
(* reads as undefined.  Arrays and objects as field values are outside the *)
(* modelled input domain.  Every record of the module lists its fields in  *)
(* the order in which the names first occur in the module, the order in    *)
(* which TLC keeps them, so that no record is reordered while it is read.  *)
(***************************************************************************)
JUndef == [t |-> "undefined", m |-> 0, k |-> 0, s |-> <<>>, b |-> FALSE]

JNull == [t |-> "null", m |-> 0, k |-> 0, s |-> <<>>, b |-> FALSE]

JNum(m, k) == [t |-> "number", m |-> m, k |-> k, s |-> <<>>, b |-> FALSE]

JStr(s) == [t |-> "string", m |-> 0, k |-> 0, s |-> s, b |-> FALSE]

JBool(b) == [t |-> "boolean", m |-> 0, k |-> 0, s |-> <<>>, b |-> b]

(***************************************************************************)
(* Characters and decimal digits.                                          *)
(***************************************************************************)
Digits == {"0", "1", "2", "3", "4", "5", "6", "7", "8", "9"}

DigitVal(c) ==
    CASE c = "0" -> 0 [] c = "1" -> 1 [] c = "2" -> 2 [] c = "3" -> 3
      [] c = "4" -> 4 [] c = "5" -> 5 [] c = "6" -> 6 [] c = "7" -> 7
      [] c = "8" -> 8 [] c = "9" -> 9

DigitChar(d) ==
    CASE d = 0 -> "0" [] d = 1 -> "1" [] d = 2 -> "2" [] d = 3 -> "3"
      [] d = 4 -> "4" [] d = 5 -> "5" [] d = 6 -> "6" [] d = 7 -> "7"
      [] d = 8 -> "8" [] d = 9 -> "9"

IsDigits(s) == \A i \in DOMAIN s : s[i] \in Digits

RECURSIVE Pow10(_)
Pow10(k) == IF k = 0 THEN 1 ELSE 10 * Pow10(k - 1)

RECURSIVE DigitsToNat(_)
DigitsToNat(s) ==
    IF s = <<>> THEN 0
    ELSE 10 * DigitsToNat(SubSeq(s, 1, Len(s) - 1)) + DigitVal(s[Len(s)])

RECURSIVE NatToDigits(_)
NatToDigits(n) ==
    IF n < 10 THEN <<DigitChar(n)>>
    ELSE Append(NatToDigits(n \div 10), DigitChar(n % 10))

Abs(n) == IF n < 0 THEN 0 - n ELSE n

\* the pair (m, k) of m / 10^k with no trailing zero in the fraction
RECURSIVE Normalize(_, _)
Normalize(m, k) ==
    IF k > 0 /\ m % 10 = 0 THEN Normalize(m \div 10, k - 1) ELSE <<m, k>>

(***************************************************************************)
(* Numbers.  The result of a coercion is [m, k, nan, inf]: m / 10^k when   *)
(* finite, the sign in m when infinite.                                    *)
(***************************************************************************)
NaN == [m |-> 0, k |-> 0, nan |-> TRUE, inf |-> FALSE]

\* +Infinity for sign 1, -Infinity for sign -1
Infinity(sign) == [m |-> sign, k |-> 0, nan |-> FALSE, inf |-> TRUE]

\* decimal digits a mantissa can have
MaxDigits == 9

\* the pair (m, k) of an integer m * 10^(-k), k < 0
RECURSIVE NormalizeLarge(_, _)
NormalizeLarge(m, k) ==
    IF Len(NatToDigits(Abs(m))) - k <= MaxDigits THEN <<m * Pow10(0 - k), 0>>
    ELSE IF m % 10 = 0 THEN NormalizeLarge(m \div 10, k - 1)
    ELSE <<m, k>>

(***************************************************************************)
(* The smallest doubles.  Below 2^-1022 a double is a whole number of      *)
(* steps of 2^-1074, so the double nearest to m / 10^k is the nearest      *)
(* number of steps, and it is written with the fewest digits that still    *)
(* read back as that double.  The numbers involved are kept as sequences   *)
(* of decimal digits (integers 0..9, most significant first).              *)
(***************************************************************************)
\* the leading digits of 2^-1074 = 4.9406564584124654417...e-324
StepDigits == <<4, 9, 4, 0, 6, 5, 6, 4, 5, 8, 4, 1, 2, 4, 6, 5, 4, 4, 1, 7>>

\* the decimal exponent of StepDigits: 2^-1074 is about StepDigits / 10^343
StepScale == 343

RECURSIVE StripLeading(_)
StripLeading(s) ==
    IF Len(s) > 1 /\ s[1] = 0 THEN StripLeading(Tail(s)) ELSE s

RECURSIVE ToNat(_)
ToNat(s) ==
    IF s = <<>> THEN 0 ELSE 10 * ToNat(SubSeq(s, 1, Len(s) - 1)) + s[Len(s)]

RECURSIVE FromNat(_)
FromNat(n) == IF n < 10 THEN <<n>> ELSE Append(FromNat(n \div 10), n % 10)

\* the digit of s in place i, 0 outside s
At(s, i) == IF i >= 1 /\ i <= Len(s) THEN s[i] ELSE 0

\* a carry out and the digits to its right: from one place holding v, and
\* from the two halves of a run of places
Digit(v) == <<v \div 10, <<v % 10>>>>

Joined(left, right) == <<left[1], left[2] \o right[2]>>

\* the places lo..hi of s times (qh * 10^5 + ql), plus carry, as the carry
\* out and the digits; s has five more places at its right end, and place i
\* takes s[i] * qh from the upper part and s[i - 5] * ql from the lower; the
\* right half is done first and hands its carry to the left half
RECURSIVE MulDigits(_, _, _, _, _, _)
LeftOf(s, lo, mid, qh, ql, right) ==
    IF right[1] >= 0
    THEN Joined(MulDigits(s, lo, mid, qh, ql, right[1]), right)
    ELSE right

MulDigits(s, lo, hi, qh, ql, carry) ==
    IF lo = hi
    THEN Digit(At(s, lo) * qh + At(s, lo - 5) * ql + carry)
    ELSE LeftOf(s, lo, (lo + hi) \div 2, qh, ql,
                MulDigits(s, (lo + hi) \div 2 + 1, hi, qh, ql, carry))

\* the carry out written in front of the digits
WithCarry(p) == StripLeading(FromNat(p[1]) \o p[2])

\* s times m, m below 10^10
Mul(s, m) ==
    WithCarry(MulDigits(s, 1, Len(s) + 5, m \div 100000, m % 100000, 0))

\* 2^1074, the number of steps in 1, written out (324 digits)
TwoTo1074 ==
    <<
      2, 0, 2, 4, 0, 2, 2, 5, 3, 3, 0, 7, 3, 1, 0, 6, 1, 8, 3, 5, 2, 4, 9, 5, 3, 4, 6,
      7, 1, 8, 9, 1, 7, 3, 0, 7, 0, 4, 9, 5, 5, 6, 6, 4, 9, 7, 6, 4, 1, 4, 2, 1, 1, 8,
      3, 5, 6, 9, 0, 1, 3, 5, 8, 0, 2, 7, 4, 3, 0, 3, 3, 9, 5, 6, 7, 9, 9, 5, 3, 4, 6,
      8, 9, 1, 9, 6, 0, 3, 8, 3, 7, 0, 1, 4, 3, 7, 1, 2, 4, 4, 9, 5, 1, 8, 7, 0, 7, 7,
      8, 6, 4, 3, 1, 6, 8, 1, 1, 9, 1, 1, 3, 8, 9, 8, 0, 8, 7, 3, 7, 3, 8, 5, 7, 9, 3,
      4, 7, 6, 8, 6, 7, 0, 1, 3, 3, 9, 9, 9, 4, 0, 7, 3, 8, 5, 0, 9, 9, 2, 1, 5, 1, 7,
      4, 2, 4, 2, 7, 6, 5, 6, 6, 3, 6, 1, 3, 6, 4, 4, 6, 6, 9, 0, 7, 7, 4, 2, 0, 9, 3,
      2, 1, 6, 3, 4, 1, 2, 3, 9, 7, 6, 7, 6, 7, 8, 4, 7, 2, 7, 4, 5, 0, 6, 8, 5, 6, 2,
      0, 0, 7, 4, 8, 3, 4, 2, 4, 6, 9, 2, 6, 9, 8, 6, 1, 8, 1, 0, 3, 3, 5, 5, 6, 4, 9,
      1, 5, 9, 5, 5, 6, 3, 4, 0, 8, 1, 0, 0, 5, 6, 5, 1, 2, 3, 5, 8, 7, 6, 9, 5, 5, 2,
      3, 3, 3, 4, 1, 4, 6, 1, 5, 2, 3, 0, 5, 0, 2, 5, 3, 2, 1, 8, 6, 3, 2, 7, 5, 0, 8,
      6, 4, 6, 0, 0, 6, 2, 6, 3, 3, 0, 7, 7, 0, 7, 7, 4, 1, 0, 9, 3, 4, 9, 4, 7, 8, 4
    >>

\* the digits p with the last k of them behind the point, rounded to the
\* nearest whole number; -1 when that has more than MaxDigits digits
Rounded(p, k) ==
    IF Len(p) - k > MaxDigits THEN -1
    ELSE (IF Len(p) > k THEN ToNat(SubSeq(p, 1, Len(p) - k)) ELSE 0)
         + (IF Len(p) >= k /\ k > 0 /\ p[Len(p) - k + 1] >= 5 THEN 1 ELSE 0)

\* m / 10^k in steps of 2^-1074, rounded to the nearest whole number (no
\* step is half way: 5^k divides no m)
Steps(m, k) == Rounded(Mul(TwoTo1074, m), k)

\* the shortest decimal that reads back as n steps, the nearest to it when
\* two of that length do: for the smallest j, the first j digits of
\* n * 2^-1074 rounded to the nearest in the last place, or else (second)
\* rounded the other way; (m, k) itself when j would pass its digits
RECURSIVE Shortest(_, _, _, _, _, _)
Shortest(n, x, j, second, m, k) ==
    IF j > Len(x) \/ j > MaxDigits THEN <<m, k>>
    ELSE LET t == ToNat(SubSeq(x, 1, j))
             kk == StepScale - (Len(x) - j)
             up == j < Len(x) /\ x[j + 1] >= 5
             c == IF up = second THEN t ELSE t + 1
         IN  IF Steps(c, kk) = n THEN <<c, kk>>
             ELSE Shortest(n, x, IF second THEN j + 1 ELSE j, ~second, m, k)

\* the double nearest to m / 10^k, m > 0, for m / 10^k below 10^-314: <<0, 0>>
\* when it is nearer to 0 than to 2^-1074, (m, k) itself from 10^MaxDigits
\* steps up (there a double holds MaxDigits digits), and the shortest decimal
\* of the nearest number of steps in between
FromSteps(n, m, k) ==
    IF n = -1 THEN <<m, k>>
    ELSE IF n = 0 THEN <<0, 0>>
    ELSE Shortest(n, Mul(StepDigits, n), 1, FALSE, m, k)

Subnormal(m, k) == FromSteps(Steps(m, k), m, k)

\* the double nearest to m / 10^k for m / 10^k below 10^-314, in lowest terms
Nearest(m, sub) == Normalize(IF m < 0 THEN 0 - sub[1] ELSE sub[1], sub[2])

\* the finite number n[1] / 10^n[2]
Double(n) == [m |-> n[1], k |-> n[2], nan |-> FALSE, inf |-> FALSE]

\* the double nearest to m / 10^k: infinite from 2^1024 - 2^970 up
\* (1.797693134862315807...e308), zero up to 2^-1075
\* (2.4703282292062327...e-324), a whole number of steps of 2^-1074 below
\* 10^-314, and m / 10^k itself in between; order is the number of digits
\* of m before the point, lead the first MaxDigits digits of m
Ranged(m, k, order, lead) ==
    IF m = 0 THEN [m |-> 0, k |-> 0, nan |-> FALSE, inf |-> FALSE]
    ELSE IF order > 309 \/ (order = 309 /\ lead > 179769313)
    THEN Infinity(IF m < 0 THEN -1 ELSE 1)
    ELSE IF order < -323 \/ (order = -323 /\ lead <= 247032822)
    THEN [m |-> 0, k |-> 0, nan |-> FALSE, inf |-> FALSE]
    ELSE Double(IF k < 0 THEN NormalizeLarge(m, k)
                ELSE IF order <= -314 THEN Nearest(m, Subnormal(Abs(m), k))
                ELSE Normalize(m, k))

\* len is the number of digits of m
Sized(m, k, len) == Ranged(m, k, len - k, Abs(m) * Pow10(MaxDigits - len))

Finite(m, k) == Sized(m, k, Len(NatToDigits(Abs(m))))

(***************************************************************************)
(* String(n) of JavaScript for the number m / 10^k (Number::toString).     *)
(* With the significant digits of the number and n the position of its     *)
(* decimal point (the value is 0.digits * 10^n): an integer up to 21       *)
(* digits is its digits and zeros; a point that falls inside the digits is *)
(* written there; a fraction down to 1e-6 is 0. and zeros and the digits;  *)
(* everything else is written with an exponent, d.ddde+x or d.ddde-x.      *)
(***************************************************************************)
RECURSIVE StripZeros(_)
StripZeros(s) ==
    IF Len(s) > 1 /\ s[Len(s)] = "0" THEN StripZeros(SubSeq(s, 1, Len(s) - 1))
    ELSE s

Zeros(n) == [i \in 1..n |-> "0"]

\* the digits of a number and the position n of its point, written out
Notation(digits, n) ==
    IF Len(digits) <= n /\ n <= 21 THEN digits \o Zeros(n - Len(digits))
    ELSE IF 0 < n /\ n <= 21
    THEN SubSeq(digits, 1, n) \o <<".">> \o SubSeq(digits, n + 1, Len(digits))
    ELSE IF -6 < n /\ n <= 0 THEN <<"0", ".">> \o Zeros(0 - n) \o digits
    ELSE <<digits[1]>>
             \o (IF Len(digits) = 1 THEN <<>> ELSE <<".">> \o Tail(digits))
             \o <<"e", IF n - 1 < 0 THEN "-" ELSE "+">>
             \o NatToDigits(Abs(n - 1))

\* all are the digits of x.m
Unsigned(x, all) ==
    IF x.inf THEN <<"I", "n", "f", "i", "n", "i", "t", "y">>
    ELSE Notation(StripZeros(all), Len(all) - x.k)

Signed(x) ==
    IF x.m = 0 THEN <<"0">>
    ELSE (IF x.m < 0 THEN <<"-">> ELSE <<>>)
             \o Unsigned(x, NatToDigits(Abs(x.m)))

NumberToString(m, k) == Signed(Finite(m, k))

(***************************************************************************)
(* toString of the validation library, applied to a field value before a   *)
(* standard validator runs: undefined and null become the empty string, a  *)
(* string is itself, a boolean or number is String(value).                 *)
(***************************************************************************)
toString(v) ==
    CASE v.t = "undefined" -> <<>>
      [] v.t = "null" -> <<>>
      [] v.t = "string" -> v.s
      [] v.t = "boolean" ->
            IF v.b THEN <<"t", "r", "u", "e">> ELSE <<"f", "a", "l", "s", "e">>
      [] v.t = "number" -> NumberToString(v.m, v.k)

(***************************************************************************)
(* Standard validators, on the stringified value.                          *)
(***************************************************************************)
StripSign(s) ==
    IF s # <<>> /\ s[1] \in {"+", "-"} THEN Tail(s) ELSE s

\* isInt() without options: leading zeroes are allowed, /^[-+]?[0-9]+$/
isInt(s) ==
    LET d == StripSign(s)
    IN  /\ d # <<>>
        /\ IsDigits(d)

\* /^[+-]?([0-9]*[.])?[0-9]+$/
isNumeric(s) ==
    LET d == StripSign(s)
    IN  /\ d # <<>>
        /\ \/ IsDigits(d)
           \/ \E i \in 1..(Len(d) - 1) :
                 /\ d[i] = "."
                 /\ IsDigits(SubSeq(d, 1, i - 1))
                 /\ IsDigits(SubSeq(d, i + 1, Len(d)))

\* str.length === 0 (whitespace is not ignored)
isEmpty(s) == Len(s) = 0

\* ['true', 'false', '1', '0'].includes(str)
isBoolean(s) ==
    s \in {<<"t", "r", "u", "e">>, <<"f", "a", "l", "s", "e">>, <<"1">>, <<"0">>}

(***************************************************************************)
(* ToNumber of JavaScript on a string: the white space and line            *)
(* terminators around it are dropped; the empty string is 0; a decimal     *)
(* literal, with an optional sign, fraction and exponent, is its value;    *)
(* Infinity, with an optional sign, is infinite; an unsigned 0x, 0o or 0b  *)
(* literal is its value; anything else is NaN.  The result is              *)
(* [m, k, nan, inf]: m / 10^k when finite, the sign in m when infinite.    *)
(* An integer below 10^MaxDigits has k = 0; a larger magnitude is kept as  *)
(* m * 10^(-k) with k < 0 and no trailing zero in m.  Mantissas of more    *)
(* than MaxDigits digits are outside the input domain.                     *)
(***************************************************************************)
\* space, tab, LF, CR, FF, and U+000B, U+00A0, U+FEFF, U+1680 written as
\* themselves (the other space separators cannot be written in a string here)
WhiteSpace == {" ", "\t", "\n", "\r", "\f", "", " ", "﻿", " "}

RECURSIVE TrimLeft(_)
TrimLeft(s) ==
    IF s # <<>> /\ s[1] \in WhiteSpace THEN TrimLeft(Tail(s)) ELSE s

RECURSIVE TrimRight(_)
TrimRight(s) ==
    IF s # <<>> /\ s[Len(s)] \in WhiteSpace
    THEN TrimRight(SubSeq(s, 1, Len(s) - 1))
    ELSE s

\* -n
Negate(n) ==
    IF n.nan THEN n
    ELSE IF n.inf THEN Infinity(0 - n.m)
    ELSE [n EXCEPT !.m = 0 - n.m]

\* the digits of a mantissa: digits, digits., digits.digits or .digits
IsMantissa(d) ==
    \/ d # <<>> /\ IsDigits(d)
    \/ \E i \in 1..Len(d) :
          /\ d[i] = "."
          /\ IsDigits(SubSeq(d, 1, i - 1))
          /\ IsDigits(SubSeq(d, i + 1, Len(d)))
          /\ Len(d) > 1

\* an exponent part without its e: digits with an optional sign
IsExponent(x) == StripSign(x) # <<>> /\ IsDigits(StripSign(x))

ExponentValue(x) ==
    IF x = <<>> THEN 0
    ELSE IF x[1] = "-" THEN 0 - DigitsToNat(Tail(x))
    ELSE DigitsToNat(StripSign(x))

\* mantissa * 10^e
MantissaToNumber(d, e) ==
    IF IsDigits(d) THEN Finite(DigitsToNat(d), 0 - e)
    ELSE LET i == CHOOSE j \in 1..Len(d) : d[j] = "."
             frac == SubSeq(d, i + 1, Len(d))
         IN  Finite(DigitsToNat(SubSeq(d, 1, i - 1) \o frac), Len(frac) - e)

\* an unsigned decimal literal, or Infinity
DecimalToNumber(d) ==
    IF d = <<"I", "n", "f", "i", "n", "i", "t", "y">> THEN Infinity(1)
    ELSE IF \E i \in 1..Len(d) : d[i] \in {"e", "E"}
    THEN LET i == CHOOSE j \in 1..Len(d) :
                     /\ d[j] \in {"e", "E"}
                     /\ \A h \in 1..(j - 1) : d[h] \notin {"e", "E"}
             mant == SubSeq(d, 1, i - 1)
             exp == SubSeq(d, i + 1, Len(d))
         IN  IF IsMantissa(mant) /\ IsExponent(exp)
             THEN MantissaToNumber(mant, ExponentValue(exp))
             ELSE NaN
    ELSE IF IsMantissa(d) THEN MantissaToNumber(d, 0)
    ELSE NaN

\* the value of a digit of a 0x, 0o or 0b literal, -1 for any other character
RadixVal(c) ==
    CASE c \in Digits -> DigitVal(c)
      [] c \in {"a", "A"} -> 10 [] c \in {"b", "B"} -> 11
      [] c \in {"c", "C"} -> 12 [] c \in {"d", "D"} -> 13
      [] c \in {"e", "E"} -> 14 [] c \in {"f", "F"} -> 15
      [] OTHER -> -1

IsRadixDigits(s, base) ==
    s # <<>> /\ \A i \in DOMAIN s : RadixVal(s[i]) \in 0..(base - 1)

RECURSIVE RadixToNat(_, _)
RadixToNat(s, base) ==
    IF s = <<>> THEN 0
    ELSE base * RadixToNat(SubSeq(s, 1, Len(s) - 1), base)
            + RadixVal(s[Len(s)])

\* the base of a 0x, 0o or 0b literal, 0 when d is none
Radix(d) ==
    IF Len(d) < 2 \/ d[1] # "0" THEN 0
    ELSE CASE d[2] \in {"x", "X"} -> 16
           [] d[2] \in {"o", "O"} -> 8
           [] d[2] \in {"b", "B"} -> 2
           [] OTHER -> 0

\* a string with no sign and no white space around it
UnsignedToNumber(d) ==
    IF Radix(d) # 0
    THEN IF IsRadixDigits(SubSeq(d, 3, Len(d)), Radix(d))
         THEN Finite(RadixToNat(SubSeq(d, 3, Len(d)), Radix(d)), 0)
         ELSE NaN
    ELSE DecimalToNumber(d)

StringToNumber(s) ==
    LET t == TrimRight(TrimLeft(s))
    IN  IF t = <<>> THEN Finite(0, 0)
        ELSE IF t[1] = "-" THEN Negate(DecimalToNumber(Tail(t)))
        ELSE IF t[1] = "+" THEN DecimalToNumber(Tail(t))
        ELSE UnsignedToNumber(t)

\* ToNumber of JavaScript on a body value
ToNumber(v) ==
    CASE v.t = "undefined" -> NaN
      [] v.t = "null" -> Finite(0, 0)
      [] v.t = "boolean" -> Finite(IF v.b THEN 1 ELSE 0, 0)
      [] v.t = "number" -> Finite(v.m, v.k)
      [] v.t = "string" -> StringToNumber(v.s)

\* value > 0 of JavaScript: false for NaN
Positive(n) == ~n.nan /\ n.m > 0

GreaterThanZero(v) == Positive(ToNumber(v))

(***************************************************************************)
(* Bounds of the model.                                                    *)
(***************************************************************************)
\* the id sequence of the table hands out 1..MaxId
MaxId == 2

\* requests that can be in flight together
MaxInFlight == 2

Clients == 1..MaxInFlight

(***************************************************************************)
(* Inputs: the `id` path segments and the request bodies that are sent.    *)
(***************************************************************************)
S_ab == <<"a", "b">>

S_blank == <<" ">>

S_hola == <<"h", "o", "l", "a">>

IdParams ==
    {NatToDigits(i) : i \in 1..MaxId}
        \cup {<<"-", "1">>, <<"0", "1">>, <<"1", ".", "5">>, <<"n", "o">>}

Body(name, price, availability, id) ==
    [name |-> name, price |-> price, availability |-> availability, id |-> id]

Bodies ==
    { Body(JUndef, JUndef, JUndef, JUndef),
      Body(JStr(S_ab), JNum(5, 0), JUndef, JUndef),
      Body(JStr(S_ab), JNum(5, 0), JBool(FALSE), JUndef),
      Body(JStr(S_blank), JStr(<<"7", ".", "0">>), JBool(TRUE), JUndef),
      Body(JStr(S_ab), JNum(5, 0), JUndef, JNum(1, 0)),
      Body(JStr(S_ab), JNum(5, 0), JStr(S_hola), JUndef),
      Body(JStr(S_ab), JNum(0, 0), JBool(FALSE), JUndef),
      Body(JStr(S_ab), JStr(S_hola), JUndef, JUndef),
      Body(JStr(<<>>), JStr(<<>>), JStr(S_hola), JUndef),
      Body(JStr(S_ab), JBool(TRUE), JBool(TRUE), JUndef),
      Body(JStr(S_ab), JStr(<<" ", "5">>), JBool(TRUE), JUndef),
      Body(JNull, JNum(-5, 0), JNum(1, 0), JUndef),
      Body(JStr(S_ab), JNum(-5, 0), JBool(TRUE), JUndef),
      Body(JStr(S_ab), JStr(<<"5", ".">>), JBool(TRUE), JUndef),
      Body(JStr(S_ab), JStr(<<"1", "e", "3">>), JBool(TRUE), JUndef),
      Body(JStr(S_ab), JNum(1, 7), JBool(TRUE), JUndef),
      Body(JStr(S_ab), JStr(<<"+", "5">>), JNum(0, 0), JUndef) }

\* the requests that race in the interleaved specification: the ids a row
\* can have, and a body that is accepted, one with another name, price and
\* availability, and one that the gate rejects for its price
RaceIdParams == {NatToDigits(i) : i \in 1..MaxId}

RaceBodies ==
    { Body(JStr(S_ab), JNum(5, 0), JBool(FALSE), JUndef),
      Body(JStr(S_blank), JStr(<<"7", ".", "0">>), JBool(TRUE), JUndef),
      Body(JStr(S_ab), JNum(0, 0), JBool(FALSE), JUndef) }

(***************************************************************************)
(* Validation rule sets of the router.  Each chain runs every validator of *)
(* its field (no bail) and appends one error per failed validator, and the *)
(* chains of a route run in declaration order.                             *)
(***************************************************************************)
ValidationError(msg, path) == [msg |-> msg, path |-> path]

\* one validator of a chain: its error when it fails
Check(ok, msg, path) == IF ok THEN <<>> ELSE <<ValidationError(msg, path)>>

\* param('id').isInt().withMessage('ID no valido')
ParamIdChain(id) == Check(isInt(id), "ID no valido", "id")

\* body('name').notEmpty().withMessage(...)
BodyNameChain(body) ==
    Check(~isEmpty(toString(body.name)),
          "El nombre del producto no puede ir vacio", "name")

\* variant: the custom check accepts zero
PriceCustom_nonneg(value) ==
    LET n == ToNumber(value) IN ~n.nan /\ n.m >= 0

\* .custom(value=>value>0)
PriceCustom(value) == GreaterThanZero(value)

\* variant: the chain stops at its first failed validator
BodyPriceChain_bail(body) ==
    IF ~isNumeric(toString(body.price))
    THEN <<ValidationError("Valor no valido", "price")>>
    ELSE IF isEmpty(toString(body.price))
    THEN <<ValidationError("El precio del producto no puede ir vacio",
                           "price")>>
    ELSE Check(GreaterThanZero(body.price), "Precio no valido", "price")

\* body('price').isNumeric()...notEmpty()...custom(value=>value>0)...
BodyPriceChain(body) ==
    Check(isNumeric(toString(body.price)), "Valor no valido", "price")
      \o Check(~isEmpty(toString(body.price)),
               "El precio del producto no puede ir vacio", "price")
      \o Check(PriceCustom(body.price), "Precio no valido", "price")

\* body('availability').isBoolean().withMessage(...)
BodyAvailabilityChain(body) ==
    Check(isBoolean(toString(body.availability)),
          "Debes de actualizar el estado del producto", "availability")

\* validationResult(req).array() after the chains of each route
GetRules(id) == ParamIdChain(id)

PostRules(body) == BodyNameChain(body) \o BodyPriceChain(body)

PutRules(id, body) ==
    ParamIdChain(id) \o BodyNameChain(body) \o BodyPriceChain(body)
        \o BodyAvailabilityChain(body)

PatchRules(id) == ParamIdChain(id)

DeleteRules(id) == ParamIdChain(id)

(***************************************************************************)
(* The validation gate.  TRUE when the gate answers 400 itself and does    *)
(* not call next().                                                        *)
(***************************************************************************)
\* variant: the gate lets a single violation through
handleInputErrors_single(errores) == Len(errores) > 1

handleInputErrors(errores) == errores # <<>>

(***************************************************************************)
(* The products table and the Product model.                               *)
(***************************************************************************)
Price(m, k) == [m |-> m, k |-> k]

NoProduct ==
    [name |-> <<>>, price |-> Price(0, 0), availability |-> FALSE, id |-> 0]

Product(id, name, price, availability) ==
    [name |-> name, price |-> price, availability |-> availability, id |-> id]

\* the value a text column keeps for a string
ColumnText(v) == v.s

\* the value a numeric column keeps for a number or a numeric string
ColumnNumber(v) == LET n == ToNumber(v) IN Price(n.m, n.k)

\* the value a boolean column keeps for true, false, 1, 0 and their strings
ColumnBoolean(v) ==
    IF v.t = "boolean" THEN v.b
    ELSE toString(v) \in {<<"t", "r", "u", "e">>, <<"1">>}

\* availability of a new row: the column default when the field is not given
DefaultAvailability == TRUE

NoResponse ==
    [msg |-> "", errores |-> <<>>, status |-> 0, key |-> "", data |-> NoProduct,
     rows |-> <<>>]

\* res.status(400).json({errores: errores.array()})
Errores(errores) ==
    [msg |-> "", errores |-> errores, status |-> 400, key |-> "errores",
     data |-> NoProduct, rows |-> <<>>]

\* res.status(404).json({error: 'Producto no encontrado'})
NotFound ==
    [msg |-> "Producto no encontrado", errores |-> <<>>, status |-> 404,
     key |-> "error", data |-> NoProduct, rows |-> <<>>]

\* res.status(status).json({data: product})
Data(status, product) ==
    [msg |-> "", errores |-> <<>>, status |-> status, key |-> "data",
     data |-> product, rows |-> <<>>]

\* res.json({data: products})
DataAll(products) ==
    [msg |-> "", errores |-> <<>>, status |-> 200, key |-> "data",
     data |-> NoProduct, rows |-> products]

\* res.json({data: 'Producto eliminado'})
Deleted ==
    [msg |-> "Producto eliminado", errores |-> <<>>, status |-> 200,
     key |-> "data", data |-> NoProduct, rows |-> <<>>]

Request(method, id, body) == [id |-> id, body |-> body, method |-> method]

NoBody == Body(JUndef, JUndef, JUndef, JUndef)

NoRequest == Request("", <<>>, NoBody)

VARIABLES
    table,  \* the stored products, a set of Product records with distinct ids
    seq,    \* next value of the id sequence of the table
    pc,     \* per request slot: the await a handler is suspended at
    req,    \* per request slot: the request last received
    inst,   \* per request slot: the Product instance a handler holds
    res     \* per request slot: the response sent, NoResponse if none

vars == <<table, seq, pc, req, inst, res>>

Awaits ==
    {"list.findAll", "get.findByPk", "post.create", "put.findByPk",
     "put.update", "put.save", "patch.findByPk", "patch.save",
     "delete.findByPk", "delete.destroy"}

Free(c) == pc[c] \in {"idle", "done", "failed"}

\* the keys of the stored products
Keys == {p.id : p \in table}

\* Product.findByPk(id): the instance of the row with that key, or null
findByPk(id) ==
    LET key == StringToNumber(id)
    IN  IF key.k = 0 /\ ~key.inf /\ key.m \in Keys
        THEN CHOOSE p \in table : p.id = key.m
        ELSE NoProduct

\* the price of p is not below the price of q
PriceGeq(p, q) ==
    LET k == IF p.price.k > q.price.k THEN p.price.k ELSE q.price.k
    IN  p.price.m * Pow10(k - p.price.k) >= q.price.m * Pow10(k - q.price.k)

\* Product.findAll({order: [['price', 'DESC']]}): the rows the query can
\* return, every stored product once, highest price first; rows of equal
\* price come in any order
findAll ==
    {products \in [1..Cardinality(table) -> table] :
        \A i, j \in DOMAIN products :
            i < j => /\ products[i] # products[j]
                     /\ PriceGeq(products[i], products[j])}

(***************************************************************************)
(* Product.create(req.body) and the id sequence of the table.             *)
(***************************************************************************)
\* a value of the body does not fit its column: the statement is refused
\* before it runs
CreateMisfit(body) ==
    /\ body.availability.t # "undefined"
    /\ ~isBoolean(toString(body.availability))

\* the insert draws its key from the sequence: no id is given and the
\* statement runs; the value drawn is used up even when the key is taken
CreateDraws(body) == body.id.t = "undefined" /\ ~CreateMisfit(body)

\* the creates in flight that will draw their key from the sequence
SeqDemand ==
    Cardinality({c \in Clients :
        pc[c] = "post.create" /\ CreateDraws(req[c].body)})

Init ==
    /\ table = {}
    /\ seq = 1
    /\ pc = [c \in Clients |-> "idle"]
    /\ req = [c \in Clients |-> NoRequest]
    /\ inst = [c \in Clients |-> NoProduct]
    /\ res = [c \in Clients |-> NoResponse]

\* the request ends with a response
Respond(c, request, response) ==
    /\ pc' = [pc EXCEPT ![c] = "done"]
    /\ req' = [req EXCEPT ![c] = request]
    /\ inst' = [inst EXCEPT ![c] = NoProduct]
    /\ res' = [res EXCEPT ![c] = response]

\* the handler is suspended at an await
Suspend(c, at, request, product) ==
    /\ pc' = [pc EXCEPT ![c] = at]
    /\ req' = [req EXCEPT ![c] = request]
    /\ inst' = [inst EXCEPT ![c] = product]
    /\ res' = [res EXCEPT ![c] = NoResponse]

\* a route: its rule set, the gate, and the handler up to its first await
Route(c, errores, at, request) ==
    /\ Free(c)
    /\ IF handleInputErrors(errores)
       THEN Respond(c, request, Errores(errores))
       ELSE Suspend(c, at, request, NoProduct)
    /\ UNCHANGED <<table, seq>>

(***************************************************************************)
(* Routes.                                                                 *)
(***************************************************************************)
\* router.get('/', getProducts): no rule set and no gate; the handler runs up
\* to its await.  The request is kept with the method LIST, to tell it from
\* GET /:id.
RouteList(c) ==
    /\ Free(c)
    /\ Suspend(c, "list.findAll", Request("LIST", <<>>, NoBody), NoProduct)
    /\ UNCHANGED <<table, seq>>

\* router.get('/:id', param('id')..., handleInputErrors, getProductById)
RouteGet(c, id) ==
    Route(c, GetRules(id), "get.findByPk", Request("GET", id, NoBody))

\* router.post('/', body('name')..., body('price')..., handleInputErrors,
\*             createProduct)
\* a create that passes the gate and draws its key from the sequence arrives
\* only while the sequence has a value up to MaxId left for it, after the
\* creates in flight have drawn theirs
RoutePost(c, body) ==
    LET errores == PostRules(body)
    IN  /\ IF CreateDraws(body) /\ seq + SeqDemand > MaxId
           THEN handleInputErrors(errores)
           ELSE TRUE
        /\ Route(c, errores, "post.create", Request("POST", <<>>, body))

\* router.put('/:id', param('id')..., body(...)..., handleInputErrors,
\*            updateProduct)
RoutePut(c, id, body) ==
    Route(c, PutRules(id, body), "put.findByPk", Request("PUT", id, body))

\* router.patch('/:id', param('id')..., handleInputErrors, updateAvailability)
RoutePatch(c, id) ==
    Route(c, PatchRules(id), "patch.findByPk", Request("PATCH", id, NoBody))

\* router.delete('/:id', param('id')..., handleInputErrors, deleteProduct)
RouteDelete(c, id) ==
    Route(c, DeleteRules(id), "delete.findByPk",
          Request("DELETE", id, NoBody))

(***************************************************************************)
(* Handlers, one action per await.                                         *)
(***************************************************************************)
\* getProducts: findAll resolves
getProducts(c) ==
    /\ pc[c] = "list.findAll"
    /\ \E products \in findAll : Respond(c, req[c], DataAll(products))
    /\ UNCHANGED <<table, seq>>

\* getProductById: findByPk resolves
getProductById(c) ==
    /\ pc[c] = "get.findByPk"
    /\ LET product == findByPk(req[c].id)
       IN  IF product = NoProduct
           THEN Respond(c, req[c], NotFound)
           ELSE Respond(c, req[c], Data(200, product))
    /\ UNCHANGED <<table, seq>>

\* the fields Product.create(req.body) inserts: every field of the body is
\* passed on; id and availability fall back to the sequence and the default
CreateId(body) == IF body.id.t = "undefined" THEN seq ELSE body.id.m

CreateAvailability(body) ==
    IF body.availability.t = "undefined" THEN DefaultAvailability
    ELSE ColumnBoolean(body.availability)

\* the insert is refused: a value does not fit its column, or the key is taken
CreateRefused(body) == CreateMisfit(body) \/ CreateId(body) \in Keys

\* createProduct: Product.create(req.body) resolves or rejects
createProduct(c) ==
    /\ pc[c] = "post.create"
    /\ LET body == req[c].body
           product == Product(CreateId(body), ColumnText(body.name),
                              ColumnNumber(body.price),
                              CreateAvailability(body))
       IN  /\ seq' = IF CreateDraws(body) THEN seq + 1 ELSE seq
           /\ IF CreateRefused(body)
              THEN /\ pc' = [pc EXCEPT ![c] = "failed"]
                   /\ UNCHANGED <<table, req, inst, res>>
              ELSE /\ table' = table \cup {product}
                   /\ Respond(c, req[c], Data(201, product))

\* updateProduct: findByPk resolves
updateProductFind(c) ==
    /\ pc[c] = "put.findByPk"
    /\ LET product == findByPk(req[c].id)
       IN  IF product = NoProduct
           THEN Respond(c, req[c], NotFound)
           ELSE Suspend(c, "put.update", req[c], product)
    /\ UNCHANGED <<table, seq>>

\* variant: the update leaves the price out
UpdatedProduct_noPrice(product, body) ==
    Product(product.id, ColumnText(body.name), product.price,
            ColumnBoolean(body.availability))

\* product.update(req.body): the instance takes name, price and availability
\* of the body (the key of a stored instance is not assignable)
UpdatedProduct(product, body) ==
    Product(product.id, ColumnText(body.name), ColumnNumber(body.price),
            ColumnBoolean(body.availability))

\* UPDATE ... SET name, price, availability WHERE id = product.id
UpdateAll(product) ==
    {IF p.id = product.id THEN product ELSE p : p \in table}

\* UPDATE ... SET availability WHERE id = product.id
UpdateAvailability(product) ==
    {IF p.id = product.id
     THEN [p EXCEPT !.availability = product.availability]
     ELSE p : p \in table}

\* updateProduct: product.update(req.body) resolves
updateProductUpdate(c) ==
    /\ pc[c] = "put.update"
    /\ LET product == UpdatedProduct(inst[c], req[c].body)
       IN  /\ table' = UpdateAll(product)
           /\ Suspend(c, "put.save", req[c], product)
    /\ UNCHANGED seq

\* updateProduct: product.save() resolves (nothing changed since update)
updateProductSave(c) ==
    /\ pc[c] = "put.save"
    /\ Respond(c, req[c], Data(200, inst[c]))
    /\ UNCHANGED <<table, seq>>

\* variant: the availability is written back as it was read
Toggled_same(product) == product

\* product.availability=!product.dataValues.availability
Toggled(product) == [product EXCEPT !.availability = ~product.availability]

\* updateAvailability: findByPk resolves
updateAvailabilityFind(c) ==
    /\ pc[c] = "patch.findByPk"
    /\ LET product == findByPk(req[c].id)
       IN  IF product = NoProduct
           THEN Respond(c, req[c], NotFound)
           ELSE Suspend(c, "patch.save", req[c], Toggled(product))
    /\ UNCHANGED <<table, seq>>

\* variant: the save answers 404 when the row it read is no longer stored
updateAvailabilitySave_checked(c) ==
    /\ pc[c] = "patch.save"
    /\ table' = UpdateAvailability(inst[c])
    /\ IF inst[c].id \in Keys
       THEN Respond(c, req[c], Data(200, inst[c]))
       ELSE Respond(c, req[c], NotFound)
    /\ UNCHANGED seq

\* updateAvailability: product.save() resolves; it writes the changed field
updateAvailabilitySave(c) ==
    /\ pc[c] = "patch.save"
    /\ table' = UpdateAvailability(inst[c])
    /\ Respond(c, req[c], Data(200, inst[c]))
    /\ UNCHANGED seq

\* variant: the handler goes on to destroy without the not-found check
deleteProductFind_fallthrough(c) ==
    /\ pc[c] = "delete.findByPk"
    /\ Suspend(c, "delete.destroy", req[c], findByPk(req[c].id))
    /\ UNCHANGED <<table, seq>>

\* deleteProduct: findByPk resolves
deleteProductFind(c) ==
    /\ pc[c] = "delete.findByPk"
    /\ LET product == findByPk(req[c].id)
       IN  IF product = NoProduct
           THEN Respond(c, req[c], NotFound)
           ELSE Suspend(c, "delete.destroy", req[c], product)
    /\ UNCHANGED <<table, seq>>

\* variant: the handler answers without removing the row
deleteProductDestroy_keeps(c) ==
    /\ pc[c] = "delete.destroy"
    /\ Respond(c, req[c], Deleted)
    /\ UNCHANGED <<table, seq>>

\* deleteProduct: product.destroy() resolves
deleteProductDestroy(c) ==
    /\ pc[c] = "delete.destroy"
    /\ table' = {p \in table : p.id # inst[c].id}
    /\ Respond(c, req[c], Deleted)
    /\ UNCHANGED seq

\* variant: the catch block answers 500 instead of only logging
StorageError_responds(c) ==
    /\ pc[c] \in Awaits
    /\ pc' = [pc EXCEPT ![c] = "failed"]
    /\ inst' = [inst EXCEPT ![c] = NoProduct]
    /\ res' = [res EXCEPT ![c] = [NoResponse EXCEPT !.status = 500]]
    /\ UNCHANGED <<table, seq, req>>

\* an awaited storage call rejects: catch (error) { console.log(error) }
StorageError(c) ==
    /\ pc[c] \in Awaits
    /\ pc' = [pc EXCEPT ![c] = "failed"]
    /\ inst' = [inst EXCEPT ![c] = NoProduct]
    /\ UNCHANGED <<table, seq, req, res>>

\* an awaited storage call never settles: no timeout is set on it, so the
\* handler stays suspended and the request stays open without a response
StorageHang(c) ==
    /\ pc[c] \in Awaits
    /\ pc' = [pc EXCEPT ![c] = "hung"]
    /\ UNCHANGED <<table, seq, req, inst, res>>

Step(c, ids, bodies) ==
    \/ RouteList(c)
    \/ \E id \in ids : RouteGet(c, id)
    \/ \E body \in bodies : RoutePost(c, body)
    \/ \E id \in ids, body \in bodies : RoutePut(c, id, body)
    \/ \E id \in ids : RoutePatch(c, id)
    \/ \E id \in ids : RouteDelete(c, id)
    \/ getProducts(c)
    \/ getProductById(c)
    \/ createProduct(c)
    \/ updateProductFind(c)
    \/ updateProductUpdate(c)
    \/ updateProductSave(c)
    \/ updateAvailabilityFind(c)
    \/ updateAvailabilitySave(c)
    \/ deleteProductFind(c)
    \/ deleteProductDestroy(c)
    \/ StorageError(c)
    \/ StorageHang(c)

\* requests of all clients interleave at their awaits
Next == \E c \in Clients : Step(c, RaceIdParams, RaceBodies)

Spec == Init /\ [][Next]_vars

\* one request at a time: each request ends before the next one arrives
NextSeq == Step(1, IdParams, Bodies)

SpecSeq == Init /\ [][NextSeq]_vars

\* the awaited storage call of slot c takes its course: it rejects and the
\* handler's catch block runs, it is a call that never settles, or it
\* resolves and the handler resumes
Settle(c) ==
    \/ StorageError(c)
    \/ StorageHang(c)
    \/ getProducts(c)
    \/ getProductById(c)
    \/ createProduct(c)
    \/ updateProductFind(c)
    \/ updateProductUpdate(c)
    \/ updateProductSave(c)
    \/ updateAvailabilityFind(c)
    \/ updateAvailabilitySave(c)
    \/ deleteProductFind(c)
    \/ deleteProductDestroy(c)

\* one request at a time, and the runtime resumes a handler once its awaited
\* call has settled.  The condition leaves out no behaviour of the program:
\* a call that stays pending for good is the step StorageHang.
SpecLive == SpecSeq /\ WF_vars(Settle(1))

(***************************************************************************)
(* Properties.                                                             *)
(***************************************************************************)
\* the declared constraints of a request, one predicate per constraint
IdViolated(r) == ~isInt(r.id)

NameViolated(r) == isEmpty(toString(r.body.name))

PriceNotNumeric(r) == ~isNumeric(toString(r.body.price))

PriceEmpty(r) == isEmpty(toString(r.body.price))

PriceNotPositive(r) == ~GreaterThanZero(r.body.price)

AvailabilityViolated(r) == ~isBoolean(toString(r.body.availability))

Violated(r) ==
    CASE r.method = "POST" ->
            NameViolated(r) \/ PriceNotNumeric(r) \/ PriceEmpty(r)
                \/ PriceNotPositive(r)
      [] r.method = "PUT" ->
            IdViolated(r) \/ NameViolated(r) \/ PriceNotNumeric(r)
                \/ PriceEmpty(r) \/ PriceNotPositive(r)
                \/ AvailabilityViolated(r)
      [] r.method \in {"GET", "PATCH", "DELETE"} -> IdViolated(r)
      [] OTHER -> FALSE

\* slot c receives a request in this step
Received(c) == Free(c) /\ <<pc[c], req[c], res[c]>>' # <<pc[c], req[c], res[c]>>

\* the handler of slot c resumes from an await in this step and does not throw
Resumed(c, at) == pc[c] = at /\ pc'[c] \notin {at, "failed", "hung"}

\* the stored product the id of a request names, NoProduct if there is none
Target(r) ==
    IF \E p \in table : isInt(r.id) /\ StringToNumber(r.id) = Finite(p.id, 0)
    THEN CHOOSE p \in table : StringToNumber(r.id) = Finite(p.id, 0)
    ELSE NoProduct

\* C1: a request that violates a declared constraint of its route is answered
\* 400 with {errores: [...]} by the gate, its handler is not invoked and the
\* table is what it was; a request that violates none reaches its handler.
C1_ValidationGate ==
    [][\A c \in Clients :
          /\ Received(c) =>
                IF Violated(req'[c])
                THEN /\ pc'[c] = "done"
                     /\ res'[c].status = 400
                     /\ res'[c].key = "errores"
                     /\ res'[c].errores # <<>>
                     /\ table' = table
                     /\ seq' = seq
                ELSE /\ pc'[c] \in Awaits
                     /\ res'[c] = NoResponse
          /\ Violated(req'[c]) => pc'[c] = "done" /\ res'[c].status = 400
      ]_vars

\* C1 witness: a replace was rejected by the gate while products are stored
C1_Witness ==
    \E c \in Clients :
        /\ pc[c] = "done"
        /\ req[c].method = "PUT"
        /\ Violated(req[c])
        /\ res[c].status = 400
        /\ table # {}

FindAwaits ==
    {"get.findByPk", "put.findByPk", "patch.findByPk", "delete.findByPk"}

\* C2: when the lookup of get-by-id, replace, toggle or delete finds no stored
\* product with the id, the answer is 404 {error: 'Producto no encontrado'}
\* without data, the handler ends there and the table is unchanged.
C2_NotFound ==
    [][\A c \in Clients : \A at \in FindAwaits :
          Resumed(c, at) /\ Target(req[c]) = NoProduct =>
              /\ pc'[c] = "done"
              /\ res'[c].status = 404
              /\ res'[c].key = "error"
              /\ res'[c].msg = "Producto no encontrado"
              /\ res'[c].data = NoProduct
              /\ table' = table
      ]_vars

\* C2 witness: a delete of an id that is not stored was answered 404 while
\* another product is stored
C2_Witness ==
    \E c \in Clients :
        /\ pc[c] = "done"
        /\ req[c].method = "DELETE"
        /\ res[c].status = 404
        /\ Target(req[c]) = NoProduct
        /\ table # {}

\* C3: with one request at a time, a toggle of a stored id is answered 200
\* with data.availability the negation of the stored value, stores that
\* value, and changes nothing else of that product or of any other.
C3_Toggle ==
    [][LET old == Target(req[1])
       IN  /\ Resumed(1, "patch.findByPk") /\ old # NoProduct =>
                 pc'[1] = "patch.save" /\ table' = table
           /\ Resumed(1, "patch.save") =>
                 /\ old # NoProduct
                 /\ res'[1].status = 200
                 /\ res'[1].key = "data"
                 /\ res'[1].data.id = old.id
                 /\ res'[1].data.availability = ~old.availability
                 /\ table' = (table \ {old})
                       \cup {[old EXCEPT !.availability = ~old.availability]}
                 /\ Cardinality(table') = Cardinality(table)
      ]_vars

\* C3 witness: a toggle switched one of two stored products to unavailable
C3_Witness ==
    /\ pc[1] = "done"
    /\ req[1].method = "PATCH"
    /\ res[1].status = 200
    /\ res[1].data.availability = FALSE
    /\ Cardinality(table) = 2
    /\ Target(req[1]).availability = FALSE

\* C4: with one request at a time, a delete of a stored id is answered 200
\* with data 'Producto eliminado' and removes that product only; a product
\* that is not stored stays so until a create inserts it; and while it is not
\* stored every delete, get-by-id, replace and toggle of its id is answered 404.
C4_DeleteLifecycle ==
    [][LET old == Target(req[1])
       IN  /\ Resumed(1, "delete.findByPk") /\ old # NoProduct =>
                 pc'[1] = "delete.destroy" /\ table' = table
           /\ Resumed(1, "delete.destroy") =>
                 /\ old # NoProduct
                 /\ res'[1].status = 200
                 /\ res'[1].key = "data"
                 /\ res'[1].msg = "Producto eliminado"
                 /\ table' = table \ {old}
                 /\ Keys' = Keys \ {old.id}
           /\ Keys' \ Keys # {} => pc[1] = "post.create"
           /\ \A at \in FindAwaits :
                 Resumed(1, at) /\ old = NoProduct =>
                     pc'[1] = "done" /\ res'[1].status = 404
      ]_vars

\* C4 witness: a delete removed one product and left another stored
C4_Witness ==
    /\ pc[1] = "done"
    /\ req[1].method = "DELETE"
    /\ res[1].status = 200
    /\ res[1].msg = "Producto eliminado"
    /\ Target(req[1]) = NoProduct
    /\ table # {}

\* the messages of a response's errores, in order
Msgs(errores) == [i \in DOMAIN errores |-> errores[i].msg]

\* the constraints a route declares, in declaration order, each with whether
\* the request fails it and its message
IdRule(r) == <<IdViolated(r), "ID no valido">>

NameRule(r) == <<NameViolated(r), "El nombre del producto no puede ir vacio">>

NumericRule(r) == <<PriceNotNumeric(r), "Valor no valido">>

EmptyPriceRule(r) ==
    <<PriceEmpty(r), "El precio del producto no puede ir vacio">>

PositiveRule(r) == <<PriceNotPositive(r), "Precio no valido">>

AvailabilityRule(r) ==
    <<AvailabilityViolated(r), "Debes de actualizar el estado del producto">>

Declared(r) ==
    CASE r.method = "POST" ->
            <<NameRule(r), NumericRule(r), EmptyPriceRule(r), PositiveRule(r)>>
      [] r.method = "PUT" ->
            <<IdRule(r), NameRule(r), NumericRule(r), EmptyPriceRule(r),
              PositiveRule(r), AvailabilityRule(r)>>
      [] OTHER -> <<IdRule(r)>>

Failed(rule) == rule[1]

ExpectedMsgs(r) ==
    LET failed == SelectSeq(Declared(r), Failed)
    IN  [i \in DOMAIN failed |-> failed[i][2]]

\* the cases of C5 that do not depend on how a non-numeric price compares
C5_Cases(r, msgs) ==
    /\ msgs = ExpectedMsgs(r)
    /\ r.method = "POST" /\ r.body.name = JUndef /\ r.body.price = JUndef
          => Len(msgs) = 4
    /\ (/\ r.method \in {"POST", "PUT"}
        /\ r.body.price = JNum(0, 0)
        /\ ~NameViolated(r)
        /\ (r.method = "PUT" => ~IdViolated(r) /\ ~AvailabilityViolated(r)))
          => msgs = <<"Precio no valido">>
    /\ r.method = "PUT" /\ ~IdViolated(r) /\ r.body = NoBody => Len(msgs) = 5

\* a create with a valid name and a price that is not empty and not numeric
NonNumericPrice(r) ==
    /\ r.method = "POST"
    /\ ~NameViolated(r)
    /\ ~PriceEmpty(r)
    /\ PriceNotNumeric(r)

\* C5 as stated: the 400 body lists the failed constraints of the route in
\* declaration order, all of them; 4 for a create without name and price, 1
\* for price 0, 5 for a replace with an empty body, and exactly 2 for a create
\* with any price that is not empty and not numeric.
C5_Original ==
    \A c \in Clients :
        pc[c] = "done" /\ res[c].status = 400 =>
            /\ C5_Cases(req[c], Msgs(res[c].errores))
            /\ NonNumericPrice(req[c]) =>
                  Msgs(res[c].errores) = <<"Valor no valido", "Precio no valido">>

\* C5 amended: as stated, but a create with a non-numeric price has exactly
\* 2 violations only when the price is not greater than 0 under the coercion
\* of `value > 0`; when it coerces to a positive number (' 5', '5.', true)
\* there is exactly 1, 'Valor no valido'.
C5_Violations ==
    \A c \in Clients :
        pc[c] = "done" /\ res[c].status = 400 =>
            /\ C5_Cases(req[c], Msgs(res[c].errores))
            /\ NonNumericPrice(req[c]) =>
                  Msgs(res[c].errores) =
                      IF GreaterThanZero(req[c].body.price)
                      THEN <<"Valor no valido">>
                      ELSE <<"Valor no valido", "Precio no valido">>

\* C5 witness: a create with the price ' 5' was rejected with one violation
C5_Witness ==
    \E c \in Clients :
        /\ pc[c] = "done"
        /\ res[c].status = 400
        /\ NonNumericPrice(req[c])
        /\ req[c].body.price = JStr(<<" ", "5">>)
        /\ Len(res[c].errores) = 1

\* C6: with one request at a time, a replace of a stored id with a valid body
\* is answered 200 with {data: Product}; the stored product keeps its id and
\* has the name, price and availability of the body, and every other stored
\* product is unchanged.
C6_Replace ==
    [][LET old == Target(req[1])
           body == req[1].body
       IN  /\ Resumed(1, "put.findByPk") /\ old # NoProduct =>
                 pc'[1] = "put.update" /\ table' = table
           /\ Resumed(1, "put.update") =>
                 LET new == Target(req[1])'
                 IN  /\ old # NoProduct
                     /\ pc'[1] = "put.save"
                     /\ new.id = old.id
                     /\ new.name = body.name.s
                     /\ ToNumber(body.price) =
                           [m |-> new.price.m, k |-> new.price.k,
                            nan |-> FALSE, inf |-> FALSE]
                     /\ new.availability =
                           (toString(body.availability)
                               \in {<<"t", "r", "u", "e">>, <<"1">>})
                     /\ table' \ {new} = table \ {old}
                     /\ Cardinality(table') = Cardinality(table)
           /\ Resumed(1, "put.save") =>
                 /\ res'[1].status = 200
                 /\ res'[1].key = "data"
                 /\ res'[1].errores = <<>>
                 /\ res'[1].data = old
                 /\ table' = table
      ]_vars

\* C6 witness: a replace renamed one of two stored products
C6_Witness ==
    /\ pc[1] = "done"
    /\ req[1].method = "PUT"
    /\ res[1].status = 200
    /\ res[1].data \in table
    /\ res[1].data.name = S_blank
    /\ res[1].data.price = Price(7, 0)
    /\ Cardinality(table) = 2

\* C7: in every interleaving of create, replace, toggle and delete requests,
\* accepted or rejected, every stored product has a price greater than 0.
C7_PricePositive == \A p \in table : p.price.m > 0

\* C7 witness: two products are stored, a request with price 0 was rejected
\* and another request is in flight
C7_Witness ==
    /\ Cardinality(table) = 2
    /\ \E c, d \in Clients :
          /\ pc[c] = "done"
          /\ req[c].body.price = JNum(0, 0)
          /\ res[c].status = 400
          /\ pc[d] \in Awaits

\* a string that is empty or holds only whitespace
Blank(s) == \A i \in DOMAIN s : s[i] = " "

\* C8 as stated: no stored product has an empty or whitespace-only name, and
\* a create or replace whose name is empty or whitespace-only is answered 400.
C8_NameNotBlank ==
    /\ \A p \in table : ~Blank(p.name)
    /\ \A c \in Clients :
          (/\ pc[c] = "done"
           /\ req[c].method \in {"POST", "PUT"}
           /\ Blank(toString(req[c].body.name)))
              => res[c].status = 400

\* C9 as stated: stored products have distinct ids; the id of a created
\* product is the next value of the table's sequence and not a field of the
\* body; the sequence only advances and every stored id is below it, so no
\* id is handed out twice.
C9_IdAssignment ==
    [][/\ \A p, q \in table' : p.id = q.id => p = q
       /\ seq' >= seq
       /\ \A p \in table' : p.id < seq'
       /\ Resumed(1, "post.create") =>
             /\ table' \ table = {res'[1].data}
             /\ res'[1].data.id = seq
             /\ seq' = seq + 1
      ]_vars

\* C10 as stated: a create that passed the gate is answered 201 with
\* {data: Product} and no errores, adds exactly one product, changes no
\* stored product, and the new product has availability true.
C10_CreateSuccess ==
    [][Resumed(1, "post.create") =>
          /\ pc'[1] = "done"
          /\ res'[1].status = 201
          /\ res'[1].key = "data"
          /\ res'[1].errores = <<>>
          /\ table \subseteq table'
          /\ table' \ table = {res'[1].data}
          /\ res'[1].data.availability = TRUE
      ]_vars

\* slot c answered a toggle of a stored product with 200, and slot d, which
\* read the same row before that save, still holds the same inverted value
LostUpdate(c, d) ==
    /\ c # d
    /\ pc[c] = "done" /\ req[c].method = "PATCH" /\ res[c].status = 200
    /\ pc[d] = "patch.save"
    /\ inst[d].id = res[c].data.id
    /\ inst[d].availability = res[c].data.availability
    /\ \E p \in table :
          p.id = inst[d].id /\ p.availability = inst[d].availability

\* slot c holds an instance of a row that a concurrent delete has removed
StaleRead(c) ==
    /\ pc[c] \in {"put.update", "put.save", "patch.save"}
    /\ inst[c].id \notin Keys

\* C11: nothing is held between a handler's read by key and its write.  Two
\* toggles of the same stored id that both read the same availability before
\* either saved both answer 200 with the same inverted value, and the second
\* save leaves the table as the first left it: the stored availability is
\* flipped once (a lost update).  A replace or a toggle whose row was deleted
\* after it was read still goes on to answer 200 with the instance it holds,
\* while the product stays out of the table.
C11_LastWriteWins ==
    [][\A c \in Clients :
          /\ \A d \in Clients :
                (LostUpdate(c, d) /\ Resumed(d, "patch.save")) =>
                    /\ pc'[d] = "done"
                    /\ res'[d].status = 200
                    /\ res'[d].data.id = res[c].data.id
                    /\ res'[d].data.availability = res[c].data.availability
                    /\ table' = table
          /\ (StaleRead(c) /\ Resumed(c, pc[c])) =>
                /\ table' = table
                /\ inst[c].id \notin Keys'
                /\ IF pc[c] = "put.update"
                   THEN pc'[c] = "put.save"
                   ELSE /\ pc'[c] = "done"
                        /\ res'[c].status = 200
                        /\ res'[c].key = "data"
                        /\ res'[c].data = inst[c]
      ]_vars

\* one toggle has answered 200 and the other, which read the row before that
\* save, is about to save the same value over it
C11_Witness == \E c, d \in Clients : LostUpdate(c, d)

\* a delete has answered 200 while a toggle of the same id, which read the row
\* before it was removed, is about to save
C11_StaleToggle ==
    \E c, d \in Clients :
        /\ pc[d] = "done" /\ req[d].method = "DELETE" /\ res[d].status = 200
        /\ req[c].id = req[d].id
        /\ pc[c] = "patch.save"
        /\ StaleRead(c)

\* the statuses a response can carry
Statuses == {400, 404, 200, 201}

\* the safety part of C12: the response of slot 1 is set once, by the step
\* that ends the request, with one of the four statuses; a request whose
\* storage call rejected or never settles has no response; a rejected call
\* and a call that never settles change nothing in the table, and when the
\* rejected call is the save of a replace the table already holds the row as
\* the update wrote it
C12_AtMostOne ==
    /\ res'[1] # res[1] =>
          \/ Received(1)
          \/ /\ pc[1] \in Awaits
             /\ res[1] = NoResponse
             /\ pc'[1] = "done"
    /\ pc'[1] = "done" =>
          res'[1] # NoResponse /\ res'[1].status \in Statuses
    /\ pc'[1] \in Awaits \cup {"failed", "hung"} => res'[1] = NoResponse
    /\ pc'[1] = "failed" =>
          /\ pc[1] \in Awaits \cup {"failed"}
          /\ table' = table
    /\ pc[1] = "failed" => pc'[1] = "failed" \/ Received(1)
    /\ pc'[1] = "hung" =>
          /\ pc[1] \in Awaits \cup {"hung"}
          /\ table' = table
    /\ pc[1] = "hung" => pc'[1] = "hung"
    /\ (pc[1] = "put.save" /\ pc'[1] = "failed") =>
          LET product == Target(req[1])
          IN  /\ product # NoProduct
              /\ product = UpdatedProduct(product, req[1].body)
              /\ product \in table'

\* C12 as stated: a request receives at most one response; a rejected storage
\* call leaves the request without a response and, for the save of a replace,
\* the update applied; and every request that reached its handler receives a
\* response unless one of its storage calls fails.
C12_Original ==
    /\ [][C12_AtMostOne]_vars
    /\ pc[1] \in Awaits ~> pc[1] \in {"done", "failed"}

\* C12 amended: as stated, but a request receives its response when every
\* storage call of it resolves: a call that never settles leaves the request
\* open without a response, like a call that fails but without the log.  In
\* a behaviour where no storage call fails and none stays pending, every
\* request that reached its handler receives its response; and whatever the
\* calls do, the handler never stops anywhere else than at a response, a
\* rejected call or a call that never settles.
C12_ResponseTermination ==
    /\ [][C12_AtMostOne]_vars
    /\ \/ <>(pc[1] \in {"failed", "hung"})
       \/ pc[1] \in Awaits ~> pc[1] = "done"
    /\ \A at \in Awaits : pc[1] = at ~> pc[1] \in {"done", "failed", "hung"}

\* a replace was left without a response by a rejected storage call, and the
\* table holds its row as the update wrote it: the name of the row is one
\* that no create so far can have stored (the sequence has not been used and
\* the create that names its id stores another name)
C12_Witness ==
    /\ pc[1] = "failed"
    /\ req[1].method = "PUT"
    /\ res[1] = NoResponse
    /\ seq = 1
    /\ LET product == Target(req[1])
       IN  /\ product # NoProduct
           /\ product.name = S_blank
           /\ product = UpdatedProduct(product, req[1].body)

====
